---- MODULE Spec2Model ----
(***************************************************************************)
(* The zabbix_application resource and data source of the Terraform        *)
(* provider: the handlers resourceApplicationCreate, resourceApplication-  *)
(* Read, dataApplicationRead, resourceApplicationUpdate and                *)
(* resourceApplicationDelete, the common applicationRead, and              *)
(* providerConfigure, run against a remote monitoring system that other    *)
(* clients change at the same time.                                        *)
(*                                                                         *)
(* d is the schema.ResourceData handed to a handler (its id and the fields *)
(* name and hostid), remote the applications the remote system stores.     *)
(* Every call of the external client is one atomic exchange with the       *)
(* remote system; resourceApplicationCreate makes two of them, and other   *)
(* clients may act in between.                                             *)
(***************************************************************************)
EXTENDS Integers, Sequences, FiniteSets, TLC

VARIABLES
    meta,    \* "api" once providerConfigure has logged in, "none" before
    remote,  \* the applications stored by the remote system
    nextId,  \* the next ApplicationID the remote system assigns
    d,       \* the ResourceData of the handler: [id, name, hostid]
    pc,      \* "idle" | "create_read" (between the two calls of create) | "done"
    op,      \* the handler that runs or has just returned
    pre,     \* d as the handler received it
    calls,   \* the calls the handler has made to the external client, in order
    ret      \* the error the handler returned ("nil": none)

vars == <<meta, remote, nextId, d, pc, op, pre, calls, ret>>

----------------------------------------------------------------------------
(* Bounds and value sets *)

MaxId == 3

Names == {"a", "b"}

HostIds == {"10", "20"}

ClientErrors == {"E1", "E2"}

AppIds == {ToString(i) : i \in 1..MaxId}

Results == {"nil"} \cup ClientErrors

----------------------------------------------------------------------------
(* schema.ResourceData *)

\* the keys of applicationSchemaBase, copied by both schema adjusters
SchemaKeys == {"name", "hostid"}

\* d.GetOk(k): the value is set and is not the zero value of its type
GetOk(data, k) == k \in SchemaKeys /\ data[k] # ""

SetId(data, v) == [data EXCEPT !.id = v]

Set(data, k, v) == [data EXCEPT ![k] = v]

----------------------------------------------------------------------------
(* The external client and the remote system behind it *)

Call(method, arg, res, got) ==
    [method |-> method, arg |-> arg, res |-> res, got |-> got]

\* application.get: by id list, or by a filter every key of which must match
ApplicationsGet(store, params) ==
    IF "applicationids" \in DOMAIN params
    THEN {a \in store : a.applicationid = params.applicationids}
    ELSE {a \in store : \A k \in DOMAIN params.filter : a[k] = params.filter[k]}

\* the remote system keeps application names unique per host
Taken(store, name, hostid) ==
    \E a \in store : a.name = name /\ a.hostid = hostid

----------------------------------------------------------------------------
(* The handlers *)

buildApplicationObject(data) ==
    [applicationid |-> "", hostid |-> data.hostid, name |-> data.name]

lookups == {"applicationid", "hostid", "name"}

\* faulty variant: every lookup of the schema goes into the filter, set or not
dataParamsAllKeys(data) ==
    [filter |-> [k \in lookups \cap SchemaKeys |-> data[k]]]

\* the params of dataApplicationRead: a filter of the lookups that are set
dataParams(data) ==
    [filter |-> [k \in {x \in lookups : GetOk(data, x)} |-> data[k]]]

\* the params of resourceApplicationRead
resourceParams(data) == [applicationids |-> data.id]

\* faulty variant: name and hostid are written from each other's field
applicationReadResultSwapped(data, res, apps) ==
    IF res # "nil" THEN [d |-> data, err |-> res]
    ELSE IF Cardinality(apps) < 1 THEN [d |-> SetId(data, ""), err |-> "nil"]
    ELSE IF Cardinality(apps) > 1
    THEN [d |-> data, err |-> "multiple applications found"]
    ELSE LET app == CHOOSE a \in apps : TRUE
         IN [d |-> Set(Set(SetId(data, app.applicationid),
                           "name", app.hostid), "hostid", app.name),
             err |-> "nil"]

\* faulty variant: no match returns without d.SetId("")
applicationReadResultKeepsId(data, res, apps) ==
    IF res # "nil" THEN [d |-> data, err |-> res]
    ELSE IF Cardinality(apps) < 1 THEN [d |-> data, err |-> "nil"]
    ELSE IF Cardinality(apps) > 1
    THEN [d |-> data, err |-> "multiple applications found"]
    ELSE LET app == CHOOSE a \in apps : TRUE
         IN [d |-> Set(Set(SetId(data, app.applicationid),
                           "name", app.name), "hostid", app.hostid),
             err |-> "nil"]

\* faulty variant: without the len(apps) > 1 test, apps[0] is taken
applicationReadResultTakesFirst(data, res, apps) ==
    IF res # "nil" THEN [d |-> data, err |-> res]
    ELSE IF Cardinality(apps) < 1 THEN [d |-> SetId(data, ""), err |-> "nil"]
    ELSE LET app == CHOOSE a \in apps : TRUE
         IN [d |-> Set(Set(SetId(data, app.applicationid),
                           "name", app.name), "hostid", app.hostid),
             err |-> "nil"]

\* faulty variant: an error of ApplicationsGet is treated as no match
applicationReadResultClearsOnError(data, res, apps) ==
    IF res # "nil" THEN [d |-> SetId(data, ""), err |-> res]
    ELSE IF Cardinality(apps) < 1 THEN [d |-> SetId(data, ""), err |-> "nil"]
    ELSE IF Cardinality(apps) > 1
    THEN [d |-> data, err |-> "multiple applications found"]
    ELSE LET app == CHOOSE a \in apps : TRUE
         IN [d |-> Set(Set(SetId(data, app.applicationid),
                           "name", app.name), "hostid", app.hostid),
             err |-> "nil"]

\* applicationRead after api.ApplicationsGet returned (apps, res)
applicationReadResult(data, res, apps) ==
    IF res # "nil" THEN [d |-> data, err |-> res]
    ELSE IF Cardinality(apps) < 1 THEN [d |-> SetId(data, ""), err |-> "nil"]
    ELSE IF Cardinality(apps) > 1
    THEN [d |-> data, err |-> "multiple applications found"]
    ELSE LET app == CHOOSE a \in apps : TRUE
         IN [d |-> Set(Set(SetId(data, app.applicationid),
                           "name", app.name), "hostid", app.hostid),
             err |-> "nil"]

\* applicationRead: the outcomes, one per answer of the external client
applicationRead(data, store, params) ==
    {LET apps == IF r = "nil" THEN ApplicationsGet(store, params) ELSE {}
         out == applicationReadResult(data, r, apps)
     IN [d |-> out.d, err |-> out.err, store |-> store,
         calls |-> <<Call("ApplicationsGet", params, r, apps)>>]
     : r \in Results}

dataApplicationRead(data, store) == applicationRead(data, store, dataParams(data))

resourceApplicationRead(data, store) ==
    applicationRead(data, store, resourceParams(data))

\* faulty variant: the body that the source keeps commented out
resourceApplicationUpdateImplemented(data, store) ==
    {[d |-> data, err |-> r,
      store |-> IF r = "nil"
                THEN {IF a.applicationid = data.id
                      THEN [a EXCEPT !.name = data.name] ELSE a : a \in store}
                ELSE store,
      calls |-> <<Call("ApplicationsUpdate",
                       [items |-> <<[applicationid |-> data.id,
                                     hostid |-> data.hostid,
                                     name |-> data.name]>>], r, {})>>]
     : r \in Results}

resourceApplicationUpdate(data, store) ==
    {[d |-> data, err |-> "Unimplemented error", store |-> store, calls |-> <<>>]}

\* faulty variant: every application of the host is deleted
resourceApplicationDeleteByHost(data, store) ==
    {[d |-> data, err |-> r,
      store |-> IF r = "nil"
                THEN {a \in store : a.hostid # data.hostid} ELSE store,
      calls |-> <<Call("ApplicationsDeleteByIds", [ids |-> <<data.id>>], r, {})>>]
     : r \in Results}

\* faulty variant: the application is looked up before it is deleted
resourceApplicationDeleteLooksUp(data, store) ==
    {[d |-> data, err |-> r,
      store |-> IF r = "nil"
                THEN {a \in store : a.applicationid # data.id} ELSE store,
      calls |-> <<Call("ApplicationsGet", resourceParams(data), "nil",
                       ApplicationsGet(store, resourceParams(data))),
                  Call("ApplicationsDeleteByIds", [ids |-> <<data.id>>], r, {})>>]
     : r \in Results}

resourceApplicationDelete(data, store) ==
    {[d |-> data, err |-> r,
      store |-> IF r = "nil"
                THEN {a \in store : a.applicationid # data.id} ELSE store,
      calls |-> <<Call("ApplicationsDeleteByIds", [ids |-> <<data.id>>], r, {})>>]
     : r \in Results}

\* faulty variant: d.SetId is left out
createSetIdForgotten(data, item) == data

\* d.SetId(items[0].ApplicationID)
createSetId(data, item) == SetId(data, item.applicationid)

\* faulty variant: a failed api.ApplicationsCreate is tried once more
resourceApplicationCreateCallRetries(data, store, id) ==
    LET item == buildApplicationObject(data)
        created == [item EXCEPT !.applicationid = ToString(id)]
    IN {[d |-> data, err |-> r, store |-> store, created |-> FALSE,
         calls |-> <<Call("ApplicationsCreate", [items |-> <<item>>], r, {}),
                     Call("ApplicationsCreate", [items |-> <<item>>], r, {})>>]
        : r \in ClientErrors}
       \cup
       IF id <= MaxId /\ ~Taken(store, item.name, item.hostid)
       THEN {[d |-> createSetId(data, created), err |-> "nil",
              store |-> store \cup {created}, created |-> TRUE,
              calls |-> <<Call("ApplicationsCreate", [items |-> <<item>>],
                               "nil", {created})>>]}
       ELSE {}

\* resourceApplicationCreate up to d.SetId: the outcomes of api.ApplicationsCreate
resourceApplicationCreateCall(data, store, id) ==
    LET item == buildApplicationObject(data)
        created == [item EXCEPT !.applicationid = ToString(id)]
    IN {[d |-> data, err |-> r, store |-> store, created |-> FALSE,
         calls |-> <<Call("ApplicationsCreate", [items |-> <<item>>], r, {})>>]
        : r \in ClientErrors}
       \cup
       IF id <= MaxId /\ ~Taken(store, item.name, item.hostid)
       THEN {[d |-> createSetId(data, created), err |-> "nil",
              store |-> store \cup {created}, created |-> TRUE,
              calls |-> <<Call("ApplicationsCreate", [items |-> <<item>>],
                               "nil", {created})>>]}
       ELSE {}

----------------------------------------------------------------------------
(* The state machine *)

NoData == [id |-> "", name |-> "", hostid |-> ""]

Init ==
    /\ meta = "none"
    /\ remote = {}
    /\ nextId = 1
    /\ d = NoData
    /\ pc = "idle"
    /\ op = ""
    /\ pre = NoData
    /\ calls = <<>>
    /\ ret = ""

\* providerConfigure: api.Login, whose error is the named result err
ProviderConfigure ==
    /\ pc = "idle" /\ meta = "none"
    /\ \E r \in Results :
        /\ calls' = <<Call("Login", [login |-> TRUE], r, {})>>
        /\ ret' = r
        /\ meta' = IF r = "nil" THEN "api" ELSE "none"
    /\ pc' = "done" /\ op' = "providerConfigure" /\ pre' = d
    /\ UNCHANGED <<remote, nextId, d>>

\* one handler that makes at most one call, run on the data d0
Run(name, d0, outcomes) ==
    /\ pc = "idle" /\ meta = "api"
    /\ \E o \in outcomes :
        /\ d' = o.d /\ ret' = o.err /\ remote' = o.store /\ calls' = o.calls
    /\ pc' = "done" /\ op' = name /\ pre' = d0
    /\ UNCHANGED <<meta, nextId>>

ResourceRead ==
    /\ d.id # ""
    /\ Run("resourceRead", d, resourceApplicationRead(d, remote))

DataRead ==
    \E n \in Names \cup {""}, h \in HostIds, i \in {"", d.id} :
        LET d0 == [id |-> i, name |-> n, hostid |-> h]
        IN Run("dataRead", d0, dataApplicationRead(d0, remote))

Update ==
    /\ d.id # ""
    /\ \E n \in Names :
        LET d0 == [d EXCEPT !.name = n]
        IN Run("update", d0, resourceApplicationUpdate(d0, remote))

Delete ==
    /\ d.id # ""
    /\ Run("delete", d, resourceApplicationDelete(d, remote))

\* resourceApplicationCreate, first call: api.ApplicationsCreate, then d.SetId
CreateCall ==
    /\ pc = "idle" /\ meta = "api"
    /\ \E n \in Names, h \in HostIds :
        LET d0 == [id |-> "", name |-> n, hostid |-> h]
        IN /\ pre' = d0
           /\ \E o \in resourceApplicationCreateCall(d0, remote, nextId) :
               /\ d' = o.d /\ remote' = o.store /\ calls' = o.calls
               /\ ret' = IF o.created THEN "" ELSE o.err
               /\ nextId' = IF o.created THEN nextId + 1 ELSE nextId
               /\ pc' = IF o.created THEN "create_read" ELSE "done"
    /\ op' = "create"
    /\ UNCHANGED meta

\* resourceApplicationCreate, second call: return resourceApplicationRead(d, m)
CreateRead ==
    /\ pc = "create_read"
    /\ \E o \in resourceApplicationRead(d, remote) :
        /\ d' = o.d /\ ret' = o.err /\ remote' = o.store
        /\ calls' = calls \o o.calls
    /\ pc' = "done"
    /\ UNCHANGED <<meta, nextId, op, pre>>

\* schema.ImportStatePassthrough: the given id, no field set yet
Import ==
    /\ pc = "idle" /\ meta = "api"
    /\ \E i \in AppIds : d' = [id |-> i, name |-> "", hostid |-> ""]
    /\ pre' = d'
    /\ UNCHANGED <<meta, remote, nextId, pc, op, calls, ret>>

\* the handler's result goes back to the plugin host
Return ==
    /\ pc = "done"
    /\ pc' = "idle" /\ op' = "" /\ calls' = <<>> /\ ret' = "" /\ pre' = d
    /\ UNCHANGED <<meta, remote, nextId, d>>

\* other clients of the remote system
EnvCreate ==
    /\ pc # "done" /\ nextId <= MaxId
    /\ \E n \in Names, h \in HostIds :
        /\ ~Taken(remote, n, h)
        /\ remote' = remote \cup
               {[applicationid |-> ToString(nextId), hostid |-> h, name |-> n]}
    /\ nextId' = nextId + 1
    /\ UNCHANGED <<meta, d, pc, op, pre, calls, ret>>

EnvDelete ==
    /\ pc # "done"
    /\ \E a \in remote : remote' = remote \ {a}
    /\ UNCHANGED <<meta, nextId, d, pc, op, pre, calls, ret>>

EnvRename ==
    /\ pc # "done"
    /\ \E a \in remote, n \in Names :
        /\ ~Taken(remote, n, a.hostid)
        /\ remote' = (remote \ {a}) \cup {[a EXCEPT !.name = n]}
    /\ UNCHANGED <<meta, nextId, d, pc, op, pre, calls, ret>>

Next ==
    \/ ProviderConfigure
    \/ ResourceRead
    \/ DataRead
    \/ Update
    \/ Delete
    \/ CreateCall
    \/ CreateRead
    \/ Import
    \/ Return
    \/ EnvCreate
    \/ EnvDelete
    \/ EnvRename

Spec == Init /\ [][Next]_vars

----------------------------------------------------------------------------
(* What the properties below read off a state *)

LastCall == calls[Len(calls)]

\* the application api.ApplicationsCreate filled in, with its new ApplicationID
CreatedApp == CHOOSE a \in calls[1].got : TRUE

CreateSucceeded ==
    /\ op = "create" /\ Len(calls) >= 1
    /\ calls[1].method = "ApplicationsCreate" /\ calls[1].res = "nil"

\* a handler that ran applicationRead has returned
ReadReturned ==
    /\ pc = "done" /\ op \in {"resourceRead", "dataRead", "create"}
    /\ LastCall.method = "ApplicationsGet"

\* d as applicationRead received it
ReadEntry == IF op = "create" THEN SetId(pre, CreatedApp.applicationid) ELSE pre

----------------------------------------------------------------------------
(* C1: when resourceApplicationCreate returns without error and the remote  *)
(* store holds the created application unchanged, d has the configured name *)
(* and hostid and the id the remote system assigned.                        *)
C1_CreateThenRead ==
    (pc = "done" /\ op = "create" /\ ret = "nil" /\ CreatedApp \in remote)
        => /\ CreatedApp.name = pre.name /\ CreatedApp.hostid = pre.hostid
           /\ d = [id |-> CreatedApp.applicationid,
                   name |-> pre.name, hostid |-> pre.hostid]

C1_Witness ==
    /\ pc = "done" /\ op = "create" /\ ret = "nil"
    /\ CreatedApp \in remote /\ Cardinality(remote) > 1
    /\ d.id = CreatedApp.applicationid /\ d.name = pre.name

(* C2: a read whose query returns no application clears the id and returns  *)
(* no error, for the resource read and the data-source read alike, whatever *)
(* the id was before.                                                       *)
C2_ZeroClearsId ==
    (ReadReturned /\ LastCall.res = "nil" /\ LastCall.got = {})
        => (d.id = "" /\ ret = "nil")

C2_Witness ==
    /\ pc = "done" /\ op = "dataRead" /\ pre.id # ""
    /\ LastCall.res = "nil" /\ LastCall.got = {}
    /\ d.id = "" /\ ret = "nil"

(* C3: a read whose query returns more than one application returns the     *)
(* error "multiple applications found" and takes none of the matches: d is  *)
(* as the read received it.                                                 *)
C3_MultipleIsError ==
    (ReadReturned /\ LastCall.res = "nil" /\ Cardinality(LastCall.got) > 1)
        => (ret = "multiple applications found" /\ d = ReadEntry)

C3_Witness ==
    /\ pc = "done" /\ op = "dataRead"
    /\ LastCall.res = "nil" /\ Cardinality(LastCall.got) > 1
    /\ ret = "multiple applications found"

(* C4: every run of resourceApplicationUpdate returns "Unimplemented error",*)
(* calls nothing and leaves d and the remote store as they were.            *)
C4_UpdateUnimplemented ==
    [][(pc = "idle" /\ op' = "update")
        => /\ ret' = "Unimplemented error"
           /\ calls' = <<>>
           /\ d' = pre'
           /\ remote' = remote]_vars

C4_Witness ==
    /\ pc = "done" /\ op = "update" /\ ret = "Unimplemented error"
    /\ \E a \in remote : a.applicationid = d.id /\ a.name # d.name

(* C5: an error of the external client ends the handler, which returns that *)
(* very error and has not called the failed method again.                   *)
C5_ErrorsVerbatim ==
    /\ pc = "done" =>
        \A i \in 1..Len(calls) :
            calls[i].res # "nil" => (i = Len(calls) /\ ret = calls[i].res)
    /\ pc = "done" =>
        \A i, j \in 1..Len(calls) :
            (i # j) => calls[i].method # calls[j].method
    /\ pc = "create_read" => \A i \in 1..Len(calls) : calls[i].res = "nil"

C5_Witness ==
    /\ pc = "done" /\ op = "create" /\ Len(calls) = 2
    /\ calls[2].res \in ClientErrors /\ ret = calls[2].res

(* C6, as stated: every application handler makes a single call of the      *)
(* external client per invocation.                                          *)
C6_SingleCallEach ==
    (pc = "done" /\ op \in {"create", "resourceRead", "dataRead", "delete"})
        => Len(calls) = 1

(* C6, amended: the reads and the delete make exactly one call; the create  *)
(* makes exactly one ApplicationsCreate call, the first, and one more call, *)
(* the ApplicationsGet of its read, exactly when that one succeeded.        *)
C6_CallsPerHandler ==
    /\ (pc = "done" /\ op \in {"resourceRead", "dataRead"})
        => (Len(calls) = 1 /\ calls[1].method = "ApplicationsGet")
    /\ (pc = "done" /\ op = "delete")
        => (Len(calls) = 1 /\ calls[1].method = "ApplicationsDeleteByIds")
    /\ (pc = "done" /\ op = "create")
        => /\ Len(calls) = (IF calls[1].res = "nil" THEN 2 ELSE 1)
           /\ calls[1].method = "ApplicationsCreate"
           /\ \A i \in 2..Len(calls) : calls[i].method = "ApplicationsGet"
    /\ (pc = "create_read")
        => (Len(calls) = 1 /\ calls[1].method = "ApplicationsCreate")

C6_Witness ==
    /\ pc = "done" /\ op = "create" /\ Len(calls) = 2
    /\ calls[1].method = "ApplicationsCreate"
    /\ calls[2].method = "ApplicationsGet"

(* C7: resourceApplicationDelete calls ApplicationsDeleteByIds once, with   *)
(* the list of the one id of d, returns what the call returned, leaves d as *)
(* it was, and no application with another id leaves the remote store.      *)
C7_DeleteOnlyTracked ==
    [][(pc = "idle" /\ op' = "delete")
        => /\ calls' = <<Call("ApplicationsDeleteByIds",
                              [ids |-> <<d.id>>], ret', {})>>
           /\ d' = d
           /\ remote' \subseteq remote
           /\ \A a \in remote : a.applicationid # d.id => a \in remote']_vars

C7_Witness ==
    /\ pc = "done" /\ op = "delete" /\ ret = "nil"
    /\ d.id # "" /\ d.name # ""
    /\ remote # {} /\ \A a \in remote : a.applicationid # d.id

(* C8: the data-source read queries with a filter of exactly the keys among *)
(* applicationid, hostid and name that are set, each with its value; the    *)
(* resource read queries by "applicationids" = id; both then handle the     *)
(* number of results alike.                                                 *)
C8_ReadParams ==
    /\ (pc = "done" /\ op = "dataRead") =>
        /\ DOMAIN LastCall.arg = {"filter"}
        /\ DOMAIN LastCall.arg.filter
               = {k \in {"applicationid", "hostid", "name"} : GetOk(pre, k)}
        /\ \A k \in DOMAIN LastCall.arg.filter : LastCall.arg.filter[k] = pre[k]
    /\ (pc = "done" /\ op = "resourceRead") =>
        /\ DOMAIN LastCall.arg = {"applicationids"}
        /\ LastCall.arg.applicationids = pre.id
    /\ (ReadReturned /\ LastCall.res = "nil") =>
        CASE Cardinality(LastCall.got) = 0 -> ret = "nil" /\ d.id = ""
          [] Cardinality(LastCall.got) = 1 ->
                /\ ret = "nil"
                /\ \E a \in LastCall.got : d.id = a.applicationid
          [] OTHER -> ret = "multiple applications found"

C8_Witness ==
    /\ pc = "done" /\ op = "dataRead" /\ pre.name = ""
    /\ DOMAIN LastCall.arg.filter = {"hostid"}
    /\ LastCall.arg.filter["hostid"] = pre.hostid
    /\ Cardinality(LastCall.got) = 1 /\ d.name # ""

(* C9: a read that returns an error leaves d as it received it; d is        *)
(* written only when one application came back (id, name and hostid become  *)
(* its values) or none did (the id is cleared, name and hostid stay).       *)
C9_FailedReadKeepsState ==
    ReadReturned =>
        /\ ret # "nil" => d = ReadEntry
        /\ ret = "nil" =>
            \/ /\ LastCall.got = {}
               /\ d = [ReadEntry EXCEPT !.id = ""]
            \/ \E a \in LastCall.got :
                /\ LastCall.got = {a}
                /\ d = [id |-> a.applicationid, name |-> a.name,
                        hostid |-> a.hostid]

C9_Witness ==
    /\ pc = "done" /\ op = "resourceRead" /\ ret \in ClientErrors
    /\ d = pre
    /\ \E a \in remote : a.applicationid = d.id /\ a.name # d.name

(* C10, as stated: whenever resourceApplicationCreate returns without error *)
(* the id is non-empty and is the ApplicationID the remote system assigned. *)
C10_CreateOkHasId ==
    (pc = "done" /\ op = "create" /\ ret = "nil")
        => (d.id # "" /\ d.id = CreatedApp.applicationid)

(* C10, amended: a failed ApplicationsCreate ends the create with the id    *)
(* unset and no read; after a successful one the id is the assigned         *)
(* ApplicationID before the read; and when the create returns without error *)
(* the id is that ApplicationID, or it is empty because the read found the  *)
(* application gone from the remote store.                                  *)
C10_CreateOutcome ==
    /\ (pc = "done" /\ op = "create" /\ calls[1].res # "nil")
        => (Len(calls) = 1 /\ d = pre /\ d.id = "" /\ ret = calls[1].res)
    /\ (pc = "create_read")
        => /\ CreateSucceeded /\ Len(calls) = 1
           /\ CreatedApp.applicationid \in AppIds
           /\ d.id = CreatedApp.applicationid
    /\ (pc = "done" /\ op = "create" /\ ret = "nil")
        => /\ CreateSucceeded /\ Len(calls) = 2
           /\ \/ d.id = CreatedApp.applicationid
              \/ d.id = "" /\ calls[2].got = {}

C10_Witness ==
    /\ pc = "done" /\ op = "create" /\ ret = "nil"
    /\ CreateSucceeded /\ d.id = "" /\ calls[2].got = {}

====
